---- MODULE Spec2Model ----
(***************************************************************************)
(* Rate limiter of "Rate Limiter/main.py": the three admission strategies  *)
(* (FixedWindowCounterStrategy, SlidingWindowLogStrategy,                  *)
(* TokenBucketStrategy), the RateLimiter that holds one of them, and the   *)
(* request threads of the Flask middleware that call it.                   *)
(*                                                                         *)
(* Time.  time.time() is a float of seconds.  The model's clock counts     *)
(* ticks of 1/TicksPerSec second, so a reading is the rational             *)
(* now/TicksPerSec.  The fixed window truncates it with int(); the sliding *)
(* window and the token bucket use it as it is.  A token count is kept as  *)
(* the integer tokens*TicksPerSec, which makes                             *)
(* tokens + elapsed*refill_rate exact for the integer rates of the model.  *)
(*                                                                         *)
(* Specifications.                                                         *)
(*   Spec           allow_request called serially, configurations of       *)
(*                  section 6 of the spec and the application's own        *)
(*   SpecAnyConfig  the same with any constructor arguments                *)
(*   SpecAnyClock   the same as Spec under a clock that may be set back    *)
(*   SpecThreads    allow run by concurrent request threads, one shared    *)
(*                  access per step                                        *)
(*   SpecFloat      the token bucket called serially, its arithmetic in    *)
(*                  rounded binary floating point                          *)
(*                                                                         *)
(* The other programs of the repository modelled here share no state with  *)
(* the rate limiter; each has its own variables and specification.         *)
(*   SpecLRU        "LRU Cache/main.py": get and put called serially       *)
(*   SpecElevator   "Elevator System/main.py": one Elevator, the threads   *)
(*                  calling request and the worker threads move starts     *)
(*   SpecVenmo      "Mini Venmo/main.py": MiniVenmo called serially        *)
(*   SpecEditor     "Notepad-Text Editor/main.py": Editor called serially  *)
(***************************************************************************)
EXTENDS Integers, Sequences, FiniteSets, TLC

\* ------------------------------------------------------------------ bounds
TicksPerSec == 2    \* clock resolution: ticks per second
MaxTime     == 3    \* last clock reading, in ticks
MaxCalls    == 4    \* serial allow_request calls in one behaviour
MaxWindow   == 2    \* largest window_size, seconds
MaxRequests == 2    \* largest max_requests
MaxRate     == 2    \* largest refill_rate, tokens per second
MaxCapacity == 2    \* largest capacity
NumThreads  == 2    \* request threads in flight

\* The strategy the application constructs: TokenBucketStrategy(refill_rate=1, capacity=5)
AppRefillRate == 1
AppCapacity   == 5

Keys    == {"", "ip1"}
Threads == 1..NumThreads

FixedWindow   == "FixedWindowCounterStrategy"
SlidingWindow == "SlidingWindowLogStrategy"
TokenBucket   == "TokenBucketStrategy"

VARIABLES
    strategy,      \* RateLimiter.strategy: the class of the instance held, "none" before construction
    window_size,   \* self.window_size  (seconds; 0 in a class without it)
    max_requests,  \* self.max_requests (0 in a class without it)
    refill_rate,   \* self.refill_rate  (tokens per second; 0 in a class without it)
    capacity,      \* self.capacity     (0 in a class without it)
    store,         \* FixedWindowCounterStrategy.store: key -> <<count, window_start>>
    logs,          \* SlidingWindowLogStrategy.logs: key -> the deque object (its index in deques)
    deques,        \* the deque objects created so far, each a sequence of timestamps
    buckets,       \* TokenBucketStrategy.buckets: key -> <<tokens*TicksPerSec, last_refill_time>>
    now,           \* the clock: the last reading of time.time(), in ticks
    hist,          \* the serial calls made: [key, t, ret, post], post the per-key state after the call
    pc,            \* per request thread: where it is in allow
    frame,         \* per request thread: the locals of its allow call
    lru_made,      \* LRU Cache: whether LRUCache(capacity) has been constructed
    lru_capacity,  \* LRUCache.capacity
    lru_cache,     \* LRUCache.cache: key -> node (the node's identity)
    lru_nodes,     \* the live Node objects: identity -> [key, value, prev, next]
    lru_last,      \* the last get or put made: [op, key, value, ret, evicted]
    lru_ref,       \* reference LRU model: <<key, value>> pairs, most recently used first
    lru_put,       \* key -> the value of its most recent put, for the keys not evicted since
    el_status,     \* Elevator.status
    el_direction,  \* Elevator.direction
    el_floor,      \* Elevator.current_floor
    el_queue,      \* Elevator.request_queue: the requests waiting, first in front
    el_lock,       \* Elevator.lock: the thread holding it, NoThread when free
    el_caller,     \* per thread calling Elevator.request: [pc, req]
    el_worker,     \* per thread started by Elevator.move: [pc, req, leg]
    el_served,     \* the requests a worker has carried to their destination
    vm_users,      \* MiniVenmo.users: user_id -> [friends, balance], the User and its Account
    vm_last,       \* the last call of MiniVenmo made: [op, sender, receiver, amount, raised, before]
    text_buffer,   \* Editor.text_buffer: the characters
    cursor,        \* Editor.cursor
    undo_stack,    \* Editor.undo_stack: the commands, last executed at the end
    redo_stack,    \* Editor.redo_stack: the commands undone, last undone at the end
    ed_last        \* the last call of the Editor made: [op, command, raised, after_undo, expect]

limiter == <<strategy, window_size, max_requests, refill_rate, capacity,
             store, logs, deques, buckets, now, hist, pc, frame>>
lru == <<lru_made, lru_capacity, lru_cache, lru_nodes, lru_last, lru_ref, lru_put>>
elevator == <<el_status, el_direction, el_floor, el_queue, el_lock, el_caller, el_worker, el_served>>
venmo == <<vm_users, vm_last>>
editor == <<text_buffer, cursor, undo_stack, redo_stack, ed_last>>
vars == <<limiter, lru, elevator, venmo, editor>>

\* what the actions of one program leave alone: the state of the other programs
notLimiter == <<lru, elevator, venmo, editor>>
notLRU == <<limiter, elevator, venmo, editor>>
notElevator == <<limiter, lru, venmo, editor>>
notVenmo == <<limiter, lru, elevator, editor>>
notEditor == <<limiter, lru, elevator, venmo>>

config  == <<strategy, window_size, max_requests, refill_rate, capacity>>
state   == <<store, logs, deques, buckets>>
threads == <<pc, frame>>

\* ------------------------------------------------------------- python bits
Min(a, b) == IF a <= b THEN a ELSE b

\* a % b of Python for b # 0: the result has the sign of b
PyMod(a, b) == IF b > 0 THEN a % b ELSE -((-a) % (-b))

EmptyDict == [k \in {} |-> 0]

\* d.get(key, default)
DictGetAnyKey(d, key, default) ==
    IF DOMAIN d = {} THEN default ELSE d[CHOOSE k \in DOMAIN d : TRUE]
DictGet(d, key, default) == IF key \in DOMAIN d THEN d[key] ELSE default

\* d[key] = value
DictSetForgetsOthers(d, key, value) == [k \in {key} |-> value]
DictSet(d, key, value) == [k \in DOMAIN d \cup {key} |-> IF k = key THEN value ELSE d[k]]

\* int(time.time()) for a clock reading of t ticks
IntTime(t) == t \div TicksPerSec

\* -------------------------------------------------- FixedWindowCounterStrategy
\* lines 33-42: the decision on the entry read: whether self.store[key] is written, the
\* entry written, and the return
FixedDecideCountsDenial(count, last_window, window_start) ==
    IF last_window # window_start THEN [write |-> TRUE, entry |-> <<1, window_start>>, ret |-> "True"]
    ELSE IF count < max_requests THEN [write |-> TRUE, entry |-> <<count + 1, window_start>>, ret |-> "True"]
    ELSE [write |-> TRUE, entry |-> <<count + 1, window_start>>, ret |-> "False"]
FixedDecideNoReset(count, last_window, window_start) ==
    IF count < max_requests THEN [write |-> TRUE, entry |-> <<count + 1, window_start>>, ret |-> "True"]
    ELSE [write |-> FALSE, entry |-> <<count, last_window>>, ret |-> "False"]
FixedDecideOffByOne(count, last_window, window_start) ==
    IF last_window # window_start THEN [write |-> TRUE, entry |-> <<1, window_start>>, ret |-> "True"]
    ELSE IF count <= max_requests THEN [write |-> TRUE, entry |-> <<count + 1, window_start>>, ret |-> "True"]
    ELSE [write |-> FALSE, entry |-> <<count, last_window>>, ret |-> "False"]
FixedDecide(count, last_window, window_start) ==
    IF last_window # window_start THEN [write |-> TRUE, entry |-> <<1, window_start>>, ret |-> "True"]
    ELSE IF count < max_requests THEN [write |-> TRUE, entry |-> <<count + 1, window_start>>, ret |-> "True"]
    ELSE [write |-> FALSE, entry |-> <<count, last_window>>, ret |-> "False"]

\* line 29, for window_size # 0
WindowStartUnaligned(current_time) == current_time
WindowStart(current_time) == current_time - PyMod(current_time, window_size)

\* allow(key) at clock reading t on the dict st: [store, ret]
FixedWindowAllow(st, key, t) ==
    IF window_size = 0 THEN [store |-> st, ret |-> "ZeroDivisionError"]
    ELSE LET window_start == WindowStart(IntTime(t))
             e == DictGet(st, key, <<0, window_start>>)
             d == FixedDecide(e[1], e[2], window_start)
         IN  [store |-> IF d.write THEN DictSet(st, key, d.entry) ELSE st, ret |-> d.ret]

\* ---------------------------------------------------- SlidingWindowLogStrategy
\* line 57, in ticks
SlidingWindowStart(t) == t - window_size * TicksPerSec

\* lines 63-64: while log and log[0] < window_start: log.popleft()
RECURSIVE PopExpiredInclusive(_, _)
PopExpiredInclusive(log, window_start) ==
    IF log # <<>> /\ log[1] <= window_start THEN PopExpiredInclusive(Tail(log), window_start) ELSE log
RECURSIVE PopExpired(_, _)
PopExpired(log, window_start) ==
    IF log # <<>> /\ log[1] < window_start THEN PopExpired(Tail(log), window_start) ELSE log

\* allow(key) at clock reading t: [logs, deques, ret]
SlidingWindowAllowOneMore(lg, dq, key, t) ==
    LET fresh == key \notin DOMAIN lg
        lg1 == IF fresh THEN DictSet(lg, key, Len(dq) + 1) ELSE lg
        dq1 == IF fresh THEN Append(dq, <<>>) ELSE dq
        id  == lg1[key]
        log == PopExpired(dq1[id], SlidingWindowStart(t))
    IN  IF Len(log) <= max_requests
        THEN [logs |-> lg1, deques |-> [dq1 EXCEPT ![id] = Append(log, t)], ret |-> "True"]
        ELSE [logs |-> lg1, deques |-> [dq1 EXCEPT ![id] = log], ret |-> "False"]
SlidingWindowAllow(lg, dq, key, t) ==
    LET fresh == key \notin DOMAIN lg
        lg1 == IF fresh THEN DictSet(lg, key, Len(dq) + 1) ELSE lg
        dq1 == IF fresh THEN Append(dq, <<>>) ELSE dq
        id  == lg1[key]
        log == PopExpired(dq1[id], SlidingWindowStart(t))
    IN  IF Len(log) < max_requests
        THEN [logs |-> lg1, deques |-> [dq1 EXCEPT ![id] = Append(log, t)], ret |-> "True"]
        ELSE [logs |-> lg1, deques |-> [dq1 EXCEPT ![id] = log], ret |-> "False"]

\* --------------------------------------------------------- TokenBucketStrategy
\* lines 87-88: the refilled token count (times TicksPerSec)
RefillIgnoresRate(tokens, last_time, t) ==
    Min(capacity * TicksPerSec, tokens + (t - last_time))
RefillUncapped(tokens, last_time, t) ==
    tokens + (t - last_time) * refill_rate
Refill(tokens, last_time, t) ==
    Min(capacity * TicksPerSec, tokens + (t - last_time) * refill_rate)

\* lines 90-95: the entry stored and the return
TokenDecideNoConsume(tokens, t) ==
    IF tokens >= TicksPerSec THEN [entry |-> <<tokens, t>>, ret |-> "True"]
    ELSE [entry |-> <<tokens, t>>, ret |-> "False"]
TokenDecide(tokens, t) ==
    IF tokens >= TicksPerSec THEN [entry |-> <<tokens - TicksPerSec, t>>, ret |-> "True"]
    ELSE [entry |-> <<tokens, t>>, ret |-> "False"]

\* allow(key) at clock reading t: [buckets, ret]
TokenBucketAllow(bk, key, t) ==
    LET e == DictGet(bk, key, <<capacity * TicksPerSec, t>>)
        d == TokenDecide(Refill(e[1], e[2], t), t)
    IN  [buckets |-> DictSet(bk, key, d.entry), ret |-> d.ret]

\* ------------------------------------------------------------------ RateLimiter
\* The state of the strategy held, as one record
Cur == [store |-> store, logs |-> logs, deques |-> deques, buckets |-> buckets]
Fresh == [store |-> EmptyDict, logs |-> EmptyDict, deques |-> <<>>, buckets |-> EmptyDict]

\* self.strategy.allow(key) on state s at clock reading t: [s, ret]
StrategyAllow(s, key, t) ==
    CASE strategy = FixedWindow ->
            LET r == FixedWindowAllow(s.store, key, t)
            IN  [s |-> [s EXCEPT !.store = r.store], ret |-> r.ret]
      [] strategy = SlidingWindow ->
            LET r == SlidingWindowAllow(s.logs, s.deques, key, t)
            IN  [s |-> [s EXCEPT !.logs = r.logs, !.deques = r.deques], ret |-> r.ret]
      [] strategy = TokenBucket ->
            LET r == TokenBucketAllow(s.buckets, key, t)
            IN  [s |-> [s EXCEPT !.buckets = r.buckets], ret |-> r.ret]

\* The per-key state of the strategy held: key -> entry, log contents or bucket
PerKey(s) ==
    CASE strategy = FixedWindow -> s.store
      [] strategy = SlidingWindow -> [k \in DOMAIN s.logs |-> s.deques[s.logs[k]]]
      [] strategy = TokenBucket -> s.buckets
      [] OTHER -> EmptyDict

Idle == [key |-> "", now |-> 0, window_start |-> 0, count |-> 0, last_window |-> 0,
         log |-> 0, tokens |-> 0, last_time |-> 0, ret |-> "none"]

\* lru_last before any get or put
NoCall == [op |-> "none", key |-> 0, value |-> 0, ret |-> 0, evicted |-> 0]

\* ---------------------------------------------------------- Elevator: threads
\* Elevator System/main.py, one Elevator. The threads are the callers of
\* Elevator.request, each making one call, and the workers Elevator.move starts
\* (threading.Thread(target=run)), at most one per call.
NumCallers == 2    \* threads calling Elevator.request
MaxFloor   == 1    \* floors 0..MaxFloor

NoThread == 0
Callers  == 1..NumCallers
Workers  == (NumCallers + 1)..(2 * NumCallers)
Floors   == 0..MaxFloor

NoRequest == [id |-> 0, source_floor |-> 0, destination_floor |-> 0]

\* ------------------------------------------------------- Mini Venmo: the calls
MaxUsers   == 2    \* user ids 1..MaxUsers
MaxAmount  == 2    \* amounts -MaxAmount..MaxAmount
MaxBalance == 3    \* deposits stop at this balance

UserIds == 1..MaxUsers
Amounts == (0 - MaxAmount)..MaxAmount

\* the balance of every account
Balances == [u \in DOMAIN vm_users |-> vm_users[u].balance]

NoVenmoCall == [op |-> "none", sender |-> 0, receiver |-> 0, amount |-> 0,
                raised |-> FALSE, before |-> EmptyDict]

\* ------------------------------------------------------ Text editor: the calls
MaxText   == 2    \* characters in one insert_text
MaxCount  == 2    \* delete_text counts -MaxCount..MaxCount
MaxOffset == 1    \* move_cursor offsets -MaxOffset..MaxOffset
MaxBuffer == 2    \* insert_text stops at this many characters
MaxStack  == 2    \* new commands stop at this many on the undo stack
MaxCursor == 3    \* delete_text stops at this cursor

Chars   == {"a", "b"}
Texts   == UNION {[1..n -> Chars] : n \in 0..MaxText}
Counts  == (0 - MaxCount)..MaxCount
Offsets == (0 - MaxOffset)..MaxOffset

\* the text and the cursor, what undo and redo are to restore
EditorState(buffer, c) == [text_buffer |-> buffer, cursor |-> c]

NoEditorCall == [op |-> "none", command |-> FALSE, raised |-> FALSE,
                 after_undo |-> FALSE, expect |-> EditorState(<<>>, 0)]

Init ==
    /\ vm_users = EmptyDict /\ vm_last = NoVenmoCall
    /\ text_buffer = <<>> /\ cursor = 0 /\ undo_stack = <<>> /\ redo_stack = <<>>
    /\ ed_last = NoEditorCall
    /\ el_status = "Idle" /\ el_direction = "IDLE" /\ el_floor = 0
    /\ el_queue = <<>> /\ el_lock = NoThread
    /\ el_caller = [c \in Callers |-> [pc |-> "idle", req |-> NoRequest]]
    /\ el_worker = [w \in Workers |-> [pc |-> "unstarted", req |-> NoRequest, leg |-> 0]]
    /\ el_served = {}
    /\ lru_made = FALSE /\ lru_capacity = 0
    /\ lru_cache = EmptyDict /\ lru_nodes = EmptyDict
    /\ lru_last = NoCall /\ lru_ref = <<>> /\ lru_put = EmptyDict
    /\ strategy = "none"
    /\ window_size = 0 /\ max_requests = 0 /\ refill_rate = 0 /\ capacity = 0
    /\ store = EmptyDict /\ logs = EmptyDict /\ deques = <<>> /\ buckets = EmptyDict
    /\ now = 0
    /\ hist = <<>>
    /\ pc = [th \in Threads |-> "idle"]
    /\ frame = [th \in Threads |-> Idle]

\* FixedWindowCounterStrategy(window_size, max_requests), then RateLimiter(strategy)
NewFixedWindow(ws, mr) ==
    /\ strategy = "none"
    /\ strategy' = FixedWindow
    /\ window_size' = ws /\ max_requests' = mr
    /\ store' = EmptyDict
    /\ UNCHANGED <<refill_rate, capacity, logs, deques, buckets, now, hist, threads, notLimiter>>

\* SlidingWindowLogStrategy(window_size, max_requests), then RateLimiter(strategy)
NewSlidingWindow(ws, mr) ==
    /\ strategy = "none"
    /\ strategy' = SlidingWindow
    /\ window_size' = ws /\ max_requests' = mr
    /\ logs' = EmptyDict
    /\ UNCHANGED <<refill_rate, capacity, store, deques, buckets, now, hist, threads, notLimiter>>

\* TokenBucketStrategy(refill_rate, capacity), then RateLimiter(strategy)
NewTokenBucket(rr, cap) ==
    /\ strategy = "none"
    /\ strategy' = TokenBucket
    /\ refill_rate' = rr /\ capacity' = cap
    /\ buckets' = EmptyDict
    /\ UNCHANGED <<window_size, max_requests, store, logs, deques, now, hist, threads, notLimiter>>

\* The calls a behaviour may make: MaxCalls, and for the application's own
\* configuration enough to drain its bucket and be denied once
CallBudget ==
    IF strategy = TokenBucket /\ capacity = AppCapacity THEN AppCapacity + 1 ELSE MaxCalls

\* The readings time.time() may give next: the clock does not run backward
ClockReadings == now..MaxTime

\* RateLimiter.allow_request(key) on state s at clock reading t: [s, ret]
AllowRequestNegated(s, key, t) ==
    LET r == StrategyAllow(s, key, t)
    IN  [s |-> r.s, ret |-> IF r.ret = "True" THEN "False" ELSE "True"]
AllowRequestOf(s, key, t) == StrategyAllow(s, key, t)

\* One call of allow_request(key), run from start to return with no other call in
\* between; t is what time.time() gives the call
Serve(key, t) ==
    /\ strategy # "none"
    /\ now' = t
    /\ LET r == AllowRequestOf(Cur, key, t)
       IN  /\ store' = r.s.store /\ logs' = r.s.logs
           /\ deques' = r.s.deques /\ buckets' = r.s.buckets
           /\ hist' = Append(hist, [key |-> key, t |-> t, ret |-> r.ret, post |-> PerKey(r.s)])
    /\ UNCHANGED <<config, threads, notLimiter>>

\* RateLimiter.allow_request(key) under a clock that does not run backward
AllowRequest(key, t) ==
    /\ Len(hist) < CallBudget
    /\ Serve(key, t)

\* RateLimiter.allow_request(key) under a wall clock, which may be set back: t is any reading
AllowRequestAnyClock(key, t) ==
    /\ Len(hist) < MaxCalls
    /\ Serve(key, t)

\* The configurations section 6 of the spec enumerates
Construct ==
    \/ \E ws \in 1..MaxWindow, mr \in 1..MaxRequests : NewFixedWindow(ws, mr)
    \/ \E ws \in 1..MaxWindow, mr \in 1..MaxRequests : NewSlidingWindow(ws, mr)
    \/ \E rr \in 0..MaxRate, cap \in 1..MaxCapacity : NewTokenBucket(rr, cap)
    \/ NewTokenBucket(AppRefillRate, AppCapacity)

\* Any numbers: __init__ stores what it is given
ConstructAny ==
    \/ \E ws \in -1..MaxWindow, mr \in -1..MaxRequests : NewFixedWindow(ws, mr)
    \/ \E ws \in -1..MaxWindow, mr \in -1..MaxRequests : NewSlidingWindow(ws, mr)
    \/ \E rr \in -1..MaxRate, cap \in -1..MaxCapacity : NewTokenBucket(rr, cap)

Next ==
    \/ Construct
    \/ \E key \in Keys, t \in ClockReadings : AllowRequest(key, t)

Spec == Init /\ [][Next]_vars

NextAnyConfig ==
    \/ ConstructAny
    \/ \E key \in Keys, t \in ClockReadings : AllowRequest(key, t)

SpecAnyConfig == Init /\ [][NextAnyConfig]_vars

NextAnyClock ==
    \/ Construct
    \/ \E key \in Keys, t \in 0..MaxTime : AllowRequestAnyClock(key, t)

SpecAnyClock == Init /\ [][NextAnyClock]_vars

\* ------------------------------------------------ TokenBucketStrategy in floats
\* tokens, refill_rate and the results of + and * are Python floats: binary
\* floating point, each operation rounded to the nearest value of the format, ties
\* to even. The model keeps the format's shape with a significand of
\* FloatPrecision bits (53 in CPython): a value is an integer count of 1/Unit
\* token, Unit a power of two, and Fl rounds a count to FloatPrecision significant
\* bits. Clock readings are whole seconds here, so now - last_time is exact, as
\* it is for readings of time.time() an hour apart or less.
FloatPrecision  == 3    \* bits of the significand
FracBits        == 6    \* Unit = 2^FracBits
MaxSeconds      == 4    \* last clock reading, in seconds
MaxFloatCalls   == 5    \* serial allow calls in one behaviour

Unit == 2 ^ FracBits

\* the power of two u with count < u * 2^FloatPrecision, smallest from u on
RECURSIVE UlpFrom(_, _)
UlpFrom(count, u) == IF count < u * (2 ^ FloatPrecision) THEN u ELSE UlpFrom(count, 2 * u)

\* the float nearest to count/Unit, for count >= 0
Fl(count) ==
    LET u == UlpFrom(count, 1)
        q == count \div u
        r == count % u
    IN  IF 2 * r < u \/ (2 * r = u /\ q % 2 = 0) THEN q * u ELSE (q + 1) * u

\* the refill rates the model constructs: the floats in (0, 1]
FloatRates == {n \in 1..Unit : Fl(n) = n}

\* lines 87-88 in floats: elapsed in seconds, tokens and refill_rate in 1/Unit
RefillFloat(tokens, last_time, t) ==
    Min(capacity * Unit, Fl(tokens + Fl((t - last_time) * refill_rate)))

\* lines 90-95 in floats
TokenDecideFloat(tokens, t) ==
    IF tokens >= Unit THEN [entry |-> <<Fl(tokens - Unit), t>>, ret |-> "True"]
    ELSE [entry |-> <<tokens, t>>, ret |-> "False"]

\* allow(key) at clock reading t seconds: [buckets, ret]
TokenBucketAllowFloat(bk, key, t) ==
    LET e == DictGet(bk, key, <<capacity * Unit, t>>)
        d == TokenDecideFloat(RefillFloat(e[1], e[2], t), t)
    IN  [buckets |-> DictSet(bk, key, d.entry), ret |-> d.ret]

\* TokenBucketStrategy(refill_rate, capacity) with a float refill_rate
NewTokenBucketFloat(rr, cap) == NewTokenBucket(rr, cap)

\* allow_request(key) at clock reading t seconds, the clock not running backward
AllowRequestFloat(key, t) ==
    /\ strategy = TokenBucket
    /\ Len(hist) < MaxFloatCalls
    /\ now' = t
    /\ LET r == TokenBucketAllowFloat(buckets, key, t)
       IN  /\ buckets' = r.buckets
           /\ hist' = Append(hist, [key |-> key, t |-> t, ret |-> r.ret, post |-> r.buckets])
    /\ UNCHANGED <<config, store, logs, deques, threads, notLimiter>>

NextFloat ==
    \/ \E rr \in FloatRates, cap \in 1..MaxCapacity : NewTokenBucketFloat(rr, cap)
    \/ \E t \in now..MaxSeconds : AllowRequestFloat("ip1", t)

SpecFloat == Init /\ [][NextFloat]_vars

\* ===================================================================== LRU Cache
\* LRU Cache/main.py: a dict of key -> Node and a doubly linked list of the nodes
\* between two sentinels, most recently used next to head. A Node object is
\* modelled by its identity, a number: the sentinels are head and tail, None is
\* NoNode, a new node takes the smallest identity no live node has, and an
\* evicted node, which nothing refers to any more, is dropped.
MaxLRUCapacity == 2
MaxLRUKey == 3
MaxLRUValue == 2
NoNode == 0
head == 1
tail == 2
Miss == -1
LRUKeys == 1..MaxLRUKey
LRUValues == 1..MaxLRUValue

\* Node(key, value)
Node(key, value) == [key |-> key, value |-> value, prev |-> NoNode, next |-> NoNode]

\* LRUCache.__init__: the two sentinels, linked to each other
NewNodes ==
    (head :> [Node(0, 0) EXCEPT !.next = tail]) @@ (tail :> [Node(0, 0) EXCEPT !.prev = head])

NewIdentity(nodes) ==
    CHOOSE n \in 1..(Cardinality(DOMAIN nodes) + 1) :
        n \notin DOMAIN nodes /\ \A m \in 1..(n - 1) : m \in DOMAIN nodes

\* _add_node: link the node right after head
_add_node(nodes, node) ==
    LET n1 == [nodes EXCEPT ![node].prev = head, ![node].next = nodes[head].next]
        n2 == [n1 EXCEPT ![n1[head].next].prev = node]
    IN  [n2 EXCEPT ![head].next = node]

\* _remove_node: unlink the node from its neighbours
_remove_node(nodes, node) ==
    LET prev == nodes[node].prev
        next == nodes[node].next
        n1 == [nodes EXCEPT ![prev].next = next]
    IN  [n1 EXCEPT ![next].prev = prev]

\* _move_to_head
_move_to_head_skipped(nodes, node) == nodes
_move_to_head(nodes, node) == _add_node(_remove_node(nodes, node), node)

\* _pop_tail: unlink the node before tail and return it
_pop_tail(nodes) ==
    LET lru_node == nodes[tail].prev
    IN  [nodes |-> _remove_node(nodes, lru_node), node |-> lru_node]

\* del d[key]
DictDelNothing(d, key) == d
DictDel(d, key) == [k \in DOMAIN d \ {key} |-> d[k]]

\* LRUCache.get on c = [capacity, cache, nodes]: the nodes after it and what it returns
get(c, key) ==
    LET node == DictGet(c.cache, key, NoNode)
    IN  IF node = NoNode
        THEN [nodes |-> c.nodes, ret |-> Miss]
        ELSE [nodes |-> _move_to_head(c.nodes, node), ret |-> c.nodes[node].value]

\* LRUCache.put on c = [capacity, cache, nodes]: the dict and the nodes after it,
\* and the key it evicted (0 for none)
put_keeps_value(c, key, value) ==
    LET node == DictGet(c.cache, key, NoNode)
    IN  IF node # NoNode
        THEN [cache |-> c.cache, nodes |-> _move_to_head(c.nodes, node), evicted |-> 0]
        ELSE LET new_node == NewIdentity(c.nodes)
                 cache1 == DictSet(c.cache, key, new_node)
                 nodes1 == _add_node(c.nodes @@ (new_node :> Node(key, value)), new_node)
             IN  IF Cardinality(DOMAIN cache1) > c.capacity
                 THEN LET popped == _pop_tail(nodes1)
                          tail_key == nodes1[popped.node].key
                      IN  [cache |-> DictDel(cache1, tail_key),
                           nodes |-> [n \in DOMAIN popped.nodes \ {popped.node} |-> popped.nodes[n]],
                           evicted |-> tail_key]
                 ELSE [cache |-> cache1, nodes |-> nodes1, evicted |-> 0]
put(c, key, value) ==
    LET node == DictGet(c.cache, key, NoNode)
    IN  IF node # NoNode
        THEN [cache |-> c.cache,
              nodes |-> _move_to_head([c.nodes EXCEPT ![node].value = value], node),
              evicted |-> 0]
        ELSE LET new_node == NewIdentity(c.nodes)
                 cache1 == DictSet(c.cache, key, new_node)
                 nodes1 == _add_node(c.nodes @@ (new_node :> Node(key, value)), new_node)
             IN  IF Cardinality(DOMAIN cache1) > c.capacity
                 THEN LET popped == _pop_tail(nodes1)
                          tail_key == nodes1[popped.node].key
                      IN  [cache |-> DictDel(cache1, tail_key),
                           nodes |-> [n \in DOMAIN popped.nodes \ {popped.node} |-> popped.nodes[n]],
                           evicted |-> tail_key]
                 ELSE [cache |-> cache1, nodes |-> nodes1, evicted |-> 0]

\* The reference LRU model: a list of <<key, value>>, most recently used first.
\* A hit moves the pair to the front; a put places its pair at the front and,
\* past the capacity, the pair at the back is dropped.
RefOthers(ref, key) == SelectSeq(ref, LAMBDA e : e[1] # key)
RefHas(ref, key) == \E i \in DOMAIN ref : ref[i][1] = key
RefGet(ref, key) ==
    IF RefHas(ref, key)
    THEN SelectSeq(ref, LAMBDA e : e[1] = key) \o RefOthers(ref, key)
    ELSE ref
RefPut(ref, key, value, cap) ==
    LET r == <<<<key, value>>>> \o RefOthers(ref, key)
    IN  IF Len(r) > cap THEN SubSeq(r, 1, Len(r) - 1) ELSE r

LRUCur == [capacity |-> lru_capacity, cache |-> lru_cache, nodes |-> lru_nodes]

\* cache = LRUCache(cap)
NewLRUCache(cap) ==
    /\ ~lru_made
    /\ lru_made' = TRUE
    /\ lru_capacity' = cap
    /\ lru_cache' = EmptyDict
    /\ lru_nodes' = NewNodes
    /\ UNCHANGED <<lru_last, lru_ref, lru_put, notLRU>>

\* cache.get(key)
Get(key) ==
    /\ lru_made
    /\ LET r == get(LRUCur, key)
       IN  /\ lru_nodes' = r.nodes
           /\ lru_last' = [op |-> "get", key |-> key, value |-> 0, ret |-> r.ret, evicted |-> 0]
    /\ lru_ref' = RefGet(lru_ref, key)
    /\ UNCHANGED <<lru_made, lru_capacity, lru_cache, lru_put, notLRU>>

\* cache.put(key, value)
Put(key, value) ==
    /\ lru_made
    /\ LET r == put(LRUCur, key, value)
       IN  /\ lru_cache' = r.cache
           /\ lru_nodes' = r.nodes
           /\ lru_last' = [op |-> "put", key |-> key, value |-> value, ret |-> 0,
                           evicted |-> r.evicted]
           /\ lru_put' = [k \in (DOMAIN lru_put \cup {key}) \ {r.evicted} |->
                             IF k = key THEN value ELSE lru_put[k]]
    /\ lru_ref' = RefPut(lru_ref, key, value, lru_capacity)
    /\ UNCHANGED <<lru_made, lru_capacity, notLRU>>

NextLRU ==
    \/ \E cap \in -1..MaxLRUCapacity : NewLRUCache(cap)
    \/ \E key \in LRUKeys : Get(key)
    \/ \E key \in LRUKeys, value \in LRUValues : Put(key, value)

SpecLRU == Init /\ [][NextLRU]_vars

\* ====================================================================== Elevator
\* Each action is one access of a thread to the elevator's fields or its lock;
\* another thread may run between any two of them. The with blocks of request
\* and run are the acquire and release of el_lock.

\* Direction.value
DirectionValue(d) == CASE d = "UP" -> 1 [] d = "DOWN" -> -1 [] OTHER -> 0

\* elevator.request(Request(src, dst)) is called by thread c
Call(c, src, dst) ==
    /\ el_caller[c].pc = "idle"
    /\ el_caller' = [el_caller EXCEPT ![c] =
           [pc |-> "acquire", req |-> [id |-> c, source_floor |-> src, destination_floor |-> dst]]]
    /\ UNCHANGED <<el_status, el_direction, el_floor, el_queue, el_lock, el_worker, el_served, notElevator>>

\* line 49: with self.lock
CallerAcquire(c) ==
    /\ el_caller[c].pc = "acquire"
    /\ el_lock = NoThread
    /\ el_lock' = c
    /\ el_caller' = [el_caller EXCEPT ![c].pc = "append"]
    /\ UNCHANGED <<el_status, el_direction, el_floor, el_queue, el_worker, el_served, notElevator>>

\* line 51: self.request_queue.append(request)
CallerAppend(c) ==
    /\ el_caller[c].pc = "append"
    /\ el_queue' = Append(el_queue, el_caller[c].req)
    /\ el_caller' = [el_caller EXCEPT ![c].pc = "check"]
    /\ UNCHANGED <<el_status, el_direction, el_floor, el_lock, el_worker, el_served, notElevator>>

\* lines 52-53 and 67: if self.status == Status.IDLE: self.move(), which starts a thread on run
CallerCheck(c) ==
    /\ el_caller[c].pc = "check"
    /\ IF el_status = "Idle"
       THEN LET w == CHOOSE x \in Workers :
                         /\ el_worker[x].pc = "unstarted"
                         /\ \A y \in Workers : y < x => el_worker[y].pc # "unstarted"
            IN  el_worker' = [el_worker EXCEPT ![w].pc = "while"]
       ELSE el_worker' = el_worker
    /\ el_caller' = [el_caller EXCEPT ![c].pc = "release"]
    /\ UNCHANGED <<el_status, el_direction, el_floor, el_queue, el_lock, el_served, notElevator>>

\* end of the with block of request
CallerRelease(c) ==
    /\ el_caller[c].pc = "release"
    /\ el_lock' = NoThread
    /\ el_caller' = [el_caller EXCEPT ![c].pc = "done"]
    /\ UNCHANGED <<el_status, el_direction, el_floor, el_queue, el_worker, el_served, notElevator>>

\* line 57: while self.request_queue, read without the lock
WorkerWhile(w) ==
    /\ el_worker[w].pc = "while"
    /\ el_worker' = [el_worker EXCEPT ![w].pc =
           IF el_queue # <<>> THEN "acquire" ELSE "set_status"]
    /\ UNCHANGED <<el_status, el_direction, el_floor, el_queue, el_lock, el_caller, el_served, notElevator>>

\* line 58: with self.lock
WorkerAcquire(w) ==
    /\ el_worker[w].pc = "acquire"
    /\ el_lock = NoThread
    /\ el_lock' = w
    /\ el_worker' = [el_worker EXCEPT ![w].pc = "pop"]
    /\ UNCHANGED <<el_status, el_direction, el_floor, el_queue, el_caller, el_served, notElevator>>

\* line 59: req = self.request_queue.pop(0); on an empty list pop raises
\* IndexError, the with block releases the lock and the thread ends
WorkerPop(w) ==
    /\ el_worker[w].pc = "pop"
    /\ IF el_queue = <<>>
       THEN /\ el_worker' = [el_worker EXCEPT ![w].pc = "IndexError"]
            /\ el_lock' = NoThread
            /\ UNCHANGED el_queue
       ELSE /\ el_worker' = [el_worker EXCEPT ![w] =
                   [pc |-> "go_status", req |-> Head(el_queue), leg |-> 1]]
            /\ el_queue' = Tail(el_queue)
            /\ UNCHANGED el_lock
    /\ UNCHANGED <<el_status, el_direction, el_floor, el_caller, el_served, notElevator>>

\* lines 61 and 63: the floor go_to_floor is called with, source then destination
Target(w) ==
    IF el_worker[w].leg = 1 THEN el_worker[w].req.source_floor
                            ELSE el_worker[w].req.destination_floor

\* return of go_to_floor: after the source leg, line 63 calls it for the
\* destination; after the destination leg the request is served
GoReturn(w) ==
    IF el_worker[w].leg = 1
    THEN /\ el_worker' = [el_worker EXCEPT ![w].pc = "go_status", ![w].leg = 2]
         /\ UNCHANGED el_served
    ELSE /\ el_worker' = [el_worker EXCEPT ![w].pc = "release"]
         /\ el_served' = el_served \cup {el_worker[w].req.id}

\* line 70: self.status = Status.MOVING
GoStatus(w) ==
    /\ el_worker[w].pc = "go_status"
    /\ el_status' = "Moving"
    /\ el_worker' = [el_worker EXCEPT ![w].pc = "go_direction"]
    /\ UNCHANGED <<el_direction, el_floor, el_queue, el_lock, el_caller, el_served, notElevator>>

\* lines 71-78: choose the direction, or return when already at the floor
GoDirection(w) ==
    /\ el_worker[w].pc = "go_direction"
    /\ IF Target(w) > el_floor
       THEN /\ el_direction' = "UP"
            /\ el_worker' = [el_worker EXCEPT ![w].pc = "go_travel"]
            /\ UNCHANGED el_served
       ELSE IF Target(w) < el_floor
       THEN /\ el_direction' = "DOWN"
            /\ el_worker' = [el_worker EXCEPT ![w].pc = "go_travel"]
            /\ UNCHANGED el_served
       ELSE /\ el_direction' = "IDLE"
            /\ GoReturn(w)
    /\ UNCHANGED <<el_status, el_floor, el_queue, el_lock, el_caller, notElevator>>

\* lines 79-82: while self.current_floor != target_floor:
\*                  self.current_floor += self.direction.value
GoTravel(w) ==
    /\ el_worker[w].pc = "go_travel"
    /\ IF el_floor # Target(w)
       THEN /\ el_floor' = el_floor + DirectionValue(el_direction)
            /\ UNCHANGED el_worker
       ELSE /\ el_worker' = [el_worker EXCEPT ![w].pc = "go_stopped"]
            /\ UNCHANGED el_floor
    /\ UNCHANGED <<el_status, el_direction, el_queue, el_lock, el_caller, el_served, notElevator>>

\* line 83: self.status = Status.STOPPED
GoStopped(w) ==
    /\ el_worker[w].pc = "go_stopped"
    /\ el_status' = "Stopped"
    /\ el_worker' = [el_worker EXCEPT ![w].pc = "go_doors"]
    /\ UNCHANGED <<el_direction, el_floor, el_queue, el_lock, el_caller, el_served, notElevator>>

\* line 87: self.status = Status.MOVING, then return
GoDoors(w) ==
    /\ el_worker[w].pc = "go_doors"
    /\ el_status' = "Moving"
    /\ GoReturn(w)
    /\ UNCHANGED <<el_direction, el_floor, el_queue, el_lock, el_caller, notElevator>>

\* end of the with block of run, back to the test of line 57
WorkerRelease(w) ==
    /\ el_worker[w].pc = "release"
    /\ el_lock' = NoThread
    /\ el_worker' = [el_worker EXCEPT ![w].pc = "while"]
    /\ UNCHANGED <<el_status, el_direction, el_floor, el_queue, el_caller, el_served, notElevator>>

\* line 64: self.status = Status.IDLE, without the lock
WorkerSetStatus(w) ==
    /\ el_worker[w].pc = "set_status"
    /\ el_status' = "Idle"
    /\ el_worker' = [el_worker EXCEPT ![w].pc = "set_direction"]
    /\ UNCHANGED <<el_direction, el_floor, el_queue, el_lock, el_caller, el_served, notElevator>>

\* line 65: self.direction = Direction.IDLE, without the lock; run returns
WorkerSetDirection(w) ==
    /\ el_worker[w].pc = "set_direction"
    /\ el_direction' = "IDLE"
    /\ el_worker' = [el_worker EXCEPT ![w].pc = "done"]
    /\ UNCHANGED <<el_status, el_floor, el_queue, el_lock, el_caller, el_served, notElevator>>

NextElevator ==
    \/ \E c \in Callers : \E src \in Floors : \E dst \in Floors : Call(c, src, dst)
    \/ \E c \in Callers : CallerAcquire(c)
    \/ \E c \in Callers : CallerAppend(c)
    \/ \E c \in Callers : CallerCheck(c)
    \/ \E c \in Callers : CallerRelease(c)
    \/ \E w \in Workers : WorkerWhile(w)
    \/ \E w \in Workers : WorkerAcquire(w)
    \/ \E w \in Workers : WorkerPop(w)
    \/ \E w \in Workers : GoStatus(w)
    \/ \E w \in Workers : GoDirection(w)
    \/ \E w \in Workers : GoTravel(w)
    \/ \E w \in Workers : GoStopped(w)
    \/ \E w \in Workers : GoDoors(w)
    \/ \E w \in Workers : WorkerRelease(w)
    \/ \E w \in Workers : WorkerSetStatus(w)
    \/ \E w \in Workers : WorkerSetDirection(w)

SpecElevator == Init /\ [][NextElevator]_vars

\* ==================================================================== Mini Venmo
\* Mini Venmo/main.py, called serially. Amounts and balances are whole numbers.
\* A call that raises keeps the writes it made before the raise.

\* x in list
InList(x, list) == \E i \in 1..Len(list) : list[i] = x

\* User.add_friend
add_friend(user, other_user_id) ==
    IF ~InList(other_user_id, user.friends)
    THEN [user EXCEPT !.friends = Append(@, other_user_id)]
    ELSE user

\* Account.deposit: [raised, balance]
deposit(balance, amount) ==
    IF amount <= 0
    THEN [raised |-> TRUE, balance |-> balance]
    ELSE [raised |-> FALSE, balance |-> balance + amount]

\* Account.withdraw: [raised, balance]
withdraw(balance, amount) ==
    IF amount > balance
    THEN [raised |-> TRUE, balance |-> balance]
    ELSE [raised |-> FALSE, balance |-> balance - amount]

\* BalancePayment.pay on the users dict: [raised, users]. The deposit reads
\* the receiver's account after the withdrawal, which matters when sender and
\* receiver are the same user.
BalancePay(users, sender_id, receiver_id, amount) ==
    LET w == withdraw(users[sender_id].balance, amount)
        afterW == [users EXCEPT ![sender_id].balance = w.balance]
        d == deposit(afterW[receiver_id].balance, amount)
    IN  IF w.raised THEN [raised |-> TRUE, users |-> users]
        ELSE IF d.raised THEN [raised |-> TRUE, users |-> afterW]
        ELSE [raised |-> FALSE, users |-> [afterW EXCEPT ![receiver_id].balance = d.balance]]

VenmoCall(op, sender, receiver, amount, raised) ==
    [op |-> op, sender |-> sender, receiver |-> receiver, amount |-> amount,
     raised |-> raised, before |-> Balances]

\* MiniVenmo.create_user
create_user(user_id) ==
    /\ IF user_id \in DOMAIN vm_users
       THEN /\ UNCHANGED vm_users
            /\ vm_last' = VenmoCall("create_user", user_id, 0, 0, TRUE)
       ELSE /\ vm_users' = DictSet(vm_users, user_id, [friends |-> <<>>, balance |-> 0])
            /\ vm_last' = VenmoCall("create_user", user_id, 0, 0, FALSE)
    /\ UNCHANGED notVenmo

\* MiniVenmo.add_friend
AddFriend(user_id, friend_id) ==
    /\ IF user_id \notin DOMAIN vm_users \/ friend_id \notin DOMAIN vm_users
       THEN /\ UNCHANGED vm_users
            /\ vm_last' = VenmoCall("add_friend", user_id, friend_id, 0, TRUE)
       ELSE LET u1 == [vm_users EXCEPT ![user_id] = add_friend(@, friend_id)]
                u2 == [u1 EXCEPT ![friend_id] = add_friend(@, user_id)]
            IN  /\ vm_users' = u2
                /\ vm_last' = VenmoCall("add_friend", user_id, friend_id, 0, FALSE)
    /\ UNCHANGED notVenmo

\* MiniVenmo.deposit_money
deposit_money(user_id, amount) ==
    /\ user_id \in DOMAIN vm_users => vm_users[user_id].balance + amount <= MaxBalance
    /\ IF user_id \notin DOMAIN vm_users
       THEN /\ UNCHANGED vm_users
            /\ vm_last' = VenmoCall("deposit_money", user_id, 0, amount, TRUE)
       ELSE LET d == deposit(vm_users[user_id].balance, amount)
            IN  /\ vm_users' = [vm_users EXCEPT ![user_id].balance = d.balance]
                /\ vm_last' = VenmoCall("deposit_money", user_id, 0, amount, d.raised)
    /\ UNCHANGED notVenmo

\* MiniVenmo.pay
pay(sender_id, receiver_id, amount) ==
    /\ IF \/ sender_id \notin DOMAIN vm_users
          \/ receiver_id \notin DOMAIN vm_users
       THEN /\ UNCHANGED vm_users
            /\ vm_last' = VenmoCall("pay", sender_id, receiver_id, amount, TRUE)
       ELSE IF ~InList(receiver_id, vm_users[sender_id].friends)
       THEN /\ UNCHANGED vm_users
            /\ vm_last' = VenmoCall("pay", sender_id, receiver_id, amount, TRUE)
       ELSE LET r == BalancePay(vm_users, sender_id, receiver_id, amount)
            IN  /\ \A u \in DOMAIN r.users : r.users[u].balance <= MaxBalance
                /\ vm_users' = r.users
                /\ vm_last' = VenmoCall("pay", sender_id, receiver_id, amount, r.raised)
    /\ UNCHANGED notVenmo

NextVenmo ==
    \/ \E u \in UserIds : create_user(u)
    \/ \E u \in UserIds : \E f \in UserIds : AddFriend(u, f)
    \/ \E u \in UserIds : \E a \in Amounts : deposit_money(u, a)
    \/ \E s1 \in UserIds : \E r \in UserIds : \E a \in Amounts : pay(s1, r, a)

SpecVenmo == Init /\ [][NextVenmo]_vars

\* =================================================================== Text editor
\* Notepad-Text Editor/main.py, called serially. A list index is counted from
\* 0 as in the code; the cursor and the positions are never negative.

Max(a, b) == IF a >= b THEN a ELSE b

\* list.insert(i, x), i >= 0: past the end it appends
ListInsert(list, i, x) ==
    IF i >= Len(list) THEN Append(list, x)
    ELSE SubSeq(list, 1, i) \o <<x>> \o SubSeq(list, i + 1, Len(list))

\* list[a:b], a and b >= 0
ListSlice(list, a, b) ==
    LET lo == Min(a, Len(list))
        hi == Min(b, Len(list))
    IN  IF lo >= hi THEN <<>> ELSE SubSeq(list, lo + 1, hi)

\* del list[a:b], a and b >= 0
ListDelSlice(list, a, b) ==
    LET lo == Min(a, Len(list))
        hi == Min(b, Len(list))
    IN  IF lo >= hi THEN list ELSE SubSeq(list, 1, lo) \o SubSeq(list, hi + 1, Len(list))

\* for i, ch in enumerate(text): list.insert(position + i, ch)
RECURSIVE InsertEach(_, _, _)
InsertEach(list, position, text) ==
    IF text = <<>> THEN list
    ELSE InsertEach(ListInsert(list, position, Head(text)), position + 1, Tail(text))

\* for _ in text: del list[position], n = len(text): [raised, list]; del
\* raises IndexError when position is past the end, after the deletions made
RECURSIVE DelEach(_, _, _)
DelEach(list, position, n) ==
    IF n = 0 THEN [raised |-> FALSE, list |-> list]
    ELSE IF position >= Len(list) THEN [raised |-> TRUE, list |-> list]
    ELSE DelEach(SubSeq(list, 1, position) \o SubSeq(list, position + 2, Len(list)),
                 position, n - 1)

\* the Command objects: kind and the fields of the three classes; pre and
\* undone_from are not fields of the code: the editor state before the
\* command's last execute and before its last undo
InsertCommand(buffer, c, text) ==
    [kind |-> "Insert", text |-> text, count |-> 0, offset |-> 0, position |-> c,
     deleted_text |-> <<>>, prev_cursor |-> 0,
     pre |-> EditorState(buffer, c), undone_from |-> EditorState(buffer, c)]
DeleteCommand(buffer, c, count) ==
    [kind |-> "Delete", text |-> <<>>, count |-> count, offset |-> 0,
     position |-> Max(0, c - count), deleted_text |-> <<>>, prev_cursor |-> 0,
     pre |-> EditorState(buffer, c), undone_from |-> EditorState(buffer, c)]
MoveCursorCommand(buffer, c, offset) ==
    [kind |-> "MoveCursor", text |-> <<>>, count |-> 0, offset |-> offset, position |-> 0,
     deleted_text |-> <<>>, prev_cursor |-> c,
     pre |-> EditorState(buffer, c), undone_from |-> EditorState(buffer, c)]

\* command.execute(): [text_buffer, cursor, command]
Execute(command, buffer, c) ==
    LET cmd == [command EXCEPT !.pre = EditorState(buffer, c)]
    IN  CASE command.kind = "Insert" ->
                 [text_buffer |-> InsertEach(buffer, command.position, command.text),
                  cursor |-> c + Len(command.text), command |-> cmd]
          [] command.kind = "Delete" ->
                 [text_buffer |-> ListDelSlice(buffer, command.position, c),
                  cursor |-> command.position,
                  command |-> [cmd EXCEPT !.deleted_text = ListSlice(buffer, command.position, c)]]
          [] OTHER ->
                 [text_buffer |-> buffer,
                  cursor |-> Max(0, Min(Len(buffer), c + command.offset)),
                  command |-> cmd]

\* command.undo(): [raised, text_buffer, cursor]
Undo(command, buffer, c) ==
    CASE command.kind = "Insert" ->
             LET d == DelEach(buffer, command.position, Len(command.text))
             IN  [raised |-> d.raised, text_buffer |-> d.list,
                  cursor |-> IF d.raised THEN c ELSE command.position]
      [] command.kind = "Delete" ->
             [raised |-> FALSE,
              text_buffer |-> InsertEach(buffer, command.position, command.deleted_text),
              cursor |-> command.position + Len(command.deleted_text)]
      [] OTHER ->
             [raised |-> FALSE, text_buffer |-> buffer, cursor |-> command.prev_cursor]

\* the body shared by insert_text, delete_text and move_cursor: execute the
\* new command, push it on the undo stack, clear the redo stack
Run(op, command) ==
    LET r == Execute(command, text_buffer, cursor)
    IN  /\ Len(undo_stack) < MaxStack
        /\ Len(r.text_buffer) <= MaxBuffer
        /\ r.cursor <= MaxCursor
        /\ text_buffer' = r.text_buffer
        /\ cursor' = r.cursor
        /\ undo_stack' = Append(undo_stack, r.command)
        /\ redo_stack' = <<>>
        /\ ed_last' = [op |-> op, command |-> TRUE, raised |-> FALSE, after_undo |-> FALSE,
                       expect |-> EditorState(r.text_buffer, r.cursor)]
        /\ UNCHANGED notEditor

\* Editor.insert_text
insert_text(text) == Run("insert_text", InsertCommand(text_buffer, cursor, text))

\* Editor.delete_text
delete_text(count) == Run("delete_text", DeleteCommand(text_buffer, cursor, count))

\* Editor.move_cursor
move_cursor(offset) == Run("move_cursor", MoveCursorCommand(text_buffer, cursor, offset))

\* Editor.undo; when command.undo() raises, the command has left the undo
\* stack and does not reach the redo stack
undo ==
    /\ IF undo_stack # <<>>
       THEN LET command == undo_stack[Len(undo_stack)]
                r == Undo(command, text_buffer, cursor)
            IN  /\ undo_stack' = SubSeq(undo_stack, 1, Len(undo_stack) - 1)
                /\ text_buffer' = r.text_buffer
                /\ cursor' = r.cursor
                /\ redo_stack' = IF r.raised THEN redo_stack
                                 ELSE Append(redo_stack,
                                        [command EXCEPT !.undone_from = EditorState(text_buffer, cursor)])
                /\ ed_last' = [op |-> "undo", command |-> TRUE, raised |-> r.raised,
                               after_undo |-> FALSE, expect |-> command.pre]
       ELSE /\ UNCHANGED <<text_buffer, cursor, undo_stack, redo_stack>>
            /\ ed_last' = [op |-> "undo", command |-> FALSE, raised |-> FALSE,
                           after_undo |-> FALSE, expect |-> EditorState(text_buffer, cursor)]
    /\ UNCHANGED notEditor

\* Editor.redo
redo ==
    /\ IF redo_stack # <<>>
       THEN LET command == redo_stack[Len(redo_stack)]
                r == Execute(command, text_buffer, cursor)
            IN  /\ redo_stack' = SubSeq(redo_stack, 1, Len(redo_stack) - 1)
                /\ text_buffer' = r.text_buffer
                /\ cursor' = r.cursor
                /\ undo_stack' = Append(undo_stack, r.command)
                /\ ed_last' = [op |-> "redo", command |-> TRUE, raised |-> FALSE,
                               after_undo |-> ed_last.op = "undo" /\ ed_last.command /\ ~ed_last.raised,
                               expect |-> command.undone_from]
       ELSE /\ UNCHANGED <<text_buffer, cursor, undo_stack, redo_stack>>
            /\ ed_last' = [op |-> "redo", command |-> FALSE, raised |-> FALSE,
                           after_undo |-> FALSE, expect |-> EditorState(text_buffer, cursor)]
    /\ UNCHANGED notEditor

NextEditor ==
    \/ \E text \in Texts : insert_text(text)
    \/ \E count \in Counts : delete_text(count)
    \/ \E offset \in Offsets : move_cursor(offset)
    \/ undo
    \/ redo

SpecEditor == Init /\ [][NextEditor]_vars

\* --------------------------------------------------------------- request threads
\* rate_limit_middleware runs in the thread of its request, and the threads of
\* several requests run allow on the one strategy instance with no lock: each
\* action below is one access to the shared dict or deque, or one clock reading,
\* and another thread may run between any two of them.

\* A thread enters allow(key): the clock reading of line 28, 56 or 83, and the
\* window_start computed from it (line 29 or 57)
ReadClock(th, key, t) ==
    /\ strategy # "none"
    /\ pc[th] = "idle"
    /\ now' = t
    /\ frame' = [frame EXCEPT ![th] =
           [@ EXCEPT !.key = key, !.now = t,
                     !.window_start = CASE strategy = FixedWindow -> WindowStart(IntTime(t))
                                        [] strategy = SlidingWindow -> SlidingWindowStart(t)
                                        [] OTHER -> 0]]
    /\ pc' = [pc EXCEPT ![th] = CASE strategy = FixedWindow -> "fixed_get"
                                  [] strategy = SlidingWindow -> "sliding_check"
                                  [] OTHER -> "token_get"]
    /\ UNCHANGED <<config, state, hist, notLimiter>>

\* line 31: count, last_window = self.store.get(key, (0, window_start))
FixedGet(th) ==
    /\ pc[th] = "fixed_get"
    /\ LET e == DictGet(store, frame[th].key, <<0, frame[th].window_start>>)
       IN  frame' = [frame EXCEPT ![th] = [@ EXCEPT !.count = e[1], !.last_window = e[2]]]
    /\ pc' = [pc EXCEPT ![th] = "fixed_put"]
    /\ UNCHANGED <<config, state, now, hist, notLimiter>>

\* lines 33-42: the decision on the locals, the write of self.store[key], the return
FixedPut(th) ==
    /\ pc[th] = "fixed_put"
    /\ LET f == frame[th]
           d == FixedDecide(f.count, f.last_window, f.window_start)
       IN  /\ store' = IF d.write THEN DictSet(store, f.key, d.entry) ELSE store
           /\ frame' = [frame EXCEPT ![th] = [@ EXCEPT !.ret = d.ret]]
    /\ pc' = [pc EXCEPT ![th] = "done"]
    /\ UNCHANGED <<config, logs, deques, buckets, now, hist, notLimiter>>

\* line 59: if key not in self.logs
SlidingCheck(th) ==
    /\ pc[th] = "sliding_check"
    /\ pc' = [pc EXCEPT ![th] = IF frame[th].key \notin DOMAIN logs THEN "sliding_new"
                                ELSE "sliding_fetch"]
    /\ UNCHANGED <<config, state, now, hist, frame, notLimiter>>

\* line 60: self.logs[key] = deque(), a new deque object
SlidingNew(th) ==
    /\ pc[th] = "sliding_new"
    /\ deques' = Append(deques, <<>>)
    /\ logs' = DictSet(logs, frame[th].key, Len(deques) + 1)
    /\ pc' = [pc EXCEPT ![th] = "sliding_fetch"]
    /\ UNCHANGED <<config, store, buckets, now, hist, frame, notLimiter>>

\* line 62: log = self.logs[key]
SlidingFetch(th) ==
    /\ pc[th] = "sliding_fetch"
    /\ frame' = [frame EXCEPT ![th] = [@ EXCEPT !.log = logs[frame[th].key]]]
    /\ pc' = [pc EXCEPT ![th] = "sliding_while"]
    /\ UNCHANGED <<config, state, now, hist, notLimiter>>

\* line 63: while log and log[0] < window_start
SlidingWhile(th) ==
    /\ pc[th] = "sliding_while"
    /\ LET log == deques[frame[th].log]
       IN  pc' = [pc EXCEPT ![th] = IF log # <<>> /\ log[1] < frame[th].window_start
                                    THEN "sliding_pop" ELSE "sliding_len"]
    /\ UNCHANGED <<config, state, now, hist, frame, notLimiter>>

\* line 64: log.popleft(), an IndexError on a deque another thread has emptied
SlidingPop(th) ==
    /\ pc[th] = "sliding_pop"
    /\ LET id == frame[th].log
       IN  IF deques[id] = <<>>
           THEN /\ frame' = [frame EXCEPT ![th] = [@ EXCEPT !.ret = "IndexError"]]
                /\ pc' = [pc EXCEPT ![th] = "done"]
                /\ UNCHANGED deques
           ELSE /\ deques' = [deques EXCEPT ![id] = Tail(@)]
                /\ pc' = [pc EXCEPT ![th] = "sliding_while"]
                /\ UNCHANGED frame
    /\ UNCHANGED <<config, store, logs, buckets, now, hist, notLimiter>>

\* line 66: if len(log) < self.max_requests, and the return False of line 69
SlidingLen(th) ==
    /\ pc[th] = "sliding_len"
    /\ IF Len(deques[frame[th].log]) < max_requests
       THEN /\ pc' = [pc EXCEPT ![th] = "sliding_append"]
            /\ UNCHANGED frame
       ELSE /\ pc' = [pc EXCEPT ![th] = "done"]
            /\ frame' = [frame EXCEPT ![th] = [@ EXCEPT !.ret = "False"]]
    /\ UNCHANGED <<config, state, now, hist, notLimiter>>

\* lines 67-68: log.append(now); return True
SlidingAppend(th) ==
    /\ pc[th] = "sliding_append"
    /\ deques' = [deques EXCEPT ![frame[th].log] = Append(@, frame[th].now)]
    /\ frame' = [frame EXCEPT ![th] = [@ EXCEPT !.ret = "True"]]
    /\ pc' = [pc EXCEPT ![th] = "done"]
    /\ UNCHANGED <<config, store, logs, buckets, now, hist, notLimiter>>

\* line 84: tokens, last_time = self.buckets.get(key, (self.capacity, now))
TokenGet(th) ==
    /\ pc[th] = "token_get"
    /\ LET e == DictGet(buckets, frame[th].key, <<capacity * TicksPerSec, frame[th].now>>)
       IN  frame' = [frame EXCEPT ![th] = [@ EXCEPT !.tokens = e[1], !.last_time = e[2]]]
    /\ pc' = [pc EXCEPT ![th] = "token_put"]
    /\ UNCHANGED <<config, state, now, hist, notLimiter>>

\* lines 87-95: the refill on the locals, the write of self.buckets[key], the return
TokenPut(th) ==
    /\ pc[th] = "token_put"
    /\ LET f == frame[th]
           d == TokenDecide(Refill(f.tokens, f.last_time, f.now), f.now)
       IN  /\ buckets' = DictSet(buckets, f.key, d.entry)
           /\ frame' = [frame EXCEPT ![th] = [@ EXCEPT !.ret = d.ret]]
    /\ pc' = [pc EXCEPT ![th] = "done"]
    /\ UNCHANGED <<config, store, logs, deques, now, hist, notLimiter>>

NextThreads ==
    \/ Construct
    \/ \E th \in Threads, key \in Keys, t \in ClockReadings : ReadClock(th, key, t)
    \/ \E th \in Threads : FixedGet(th)
    \/ \E th \in Threads : FixedPut(th)
    \/ \E th \in Threads : SlidingCheck(th)
    \/ \E th \in Threads : SlidingNew(th)
    \/ \E th \in Threads : SlidingFetch(th)
    \/ \E th \in Threads : SlidingWhile(th)
    \/ \E th \in Threads : SlidingPop(th)
    \/ \E th \in Threads : SlidingLen(th)
    \/ \E th \in Threads : SlidingAppend(th)
    \/ \E th \in Threads : TokenGet(th)
    \/ \E th \in Threads : TokenPut(th)

SpecThreads == Init /\ [][NextThreads]_vars

\* ================================================================== claims
\* The calls made for key k, in order
KeyCalls(k) == SelectSeq(hist, LAMBDA c : c.key = k)

\* The aligned window of the spec (section 3) a clock reading falls in: the index of
\* its bucket of window_size seconds
AlignedWindow(t) == (t \div TicksPerSec) \div window_size

\* C1: fixed window with max_requests = N >= 1: of N+1 serial calls for a key with no
\* prior state whose clock readings all fall in one aligned window, the first N
\* return True (the first-ever call included) and the (N+1)-th returns False.
C1_FixedFirstNThenDenied ==
    strategy = FixedWindow =>
        \A k \in Keys :
            LET s == KeyCalls(k)
            IN  \A n \in 1..Len(s) :
                    (/\ n <= max_requests + 1
                     /\ \A m \in 1..n : AlignedWindow(s[m].t) = AlignedWindow(s[1].t))
                    => s[n].ret = (IF n <= max_requests THEN "True" ELSE "False")

C1_Witness ==
    /\ strategy = FixedWindow /\ max_requests >= 2
    /\ \E k \in Keys :
           LET s == KeyCalls(k)
           IN  /\ Len(s) = max_requests + 1
               /\ s[1].t > 0
               /\ \A m \in 1..Len(s) : AlignedWindow(s[m].t) = AlignedWindow(s[1].t)
               /\ s[Len(s)].ret = "False"

\* C2: sliding window log, serial calls at non-decreasing clock readings: at every
\* call, made at time t, the calls for its key admitted with a timestamp in
\* [t - window_size, t], the call itself included if admitted, number at most
\* max_requests.
C2_SlidingTrailingWindowBound ==
    strategy = SlidingWindow =>
        \A k \in Keys :
            LET s == KeyCalls(k)
            IN  \A n \in 1..Len(s) :
                    Cardinality({m \in 1..n : /\ s[m].ret = "True"
                                              /\ s[m].t >= s[n].t - window_size * TicksPerSec
                                              /\ s[m].t <= s[n].t}) <= max_requests

\* a call denied because of an admission exactly window_size before it
C2_Witness ==
    /\ strategy = SlidingWindow
    /\ \E k \in Keys :
           LET s == KeyCalls(k)
           IN  \E n \in 1..Len(s) :
                   /\ s[n].ret = "False"
                   /\ \E m \in 1..n : s[m].ret = "True" /\ s[m].t = s[n].t - window_size * TicksPerSec
                   /\ Cardinality({m \in 1..n : /\ s[m].ret = "True"
                                                /\ s[m].t >= s[n].t - window_size * TicksPerSec})
                          = max_requests

\* C3: token bucket with capacity C >= 1: of C+1 serial calls for a key with no prior
\* state, all at one clock reading, the first C return True and the (C+1)-th False.
C3_TokenBurstOfCapacity ==
    strategy = TokenBucket =>
        \A k \in Keys :
            LET s == KeyCalls(k)
            IN  \A n \in 1..Len(s) :
                    (/\ n <= capacity + 1
                     /\ \A m \in 1..n : s[m].t = s[1].t)
                    => s[n].ret = (IF n <= capacity THEN "True" ELSE "False")

\* TokenBucketStrategy(refill_rate=1, capacity=5): [True]*5, then False
C3_Witness ==
    /\ strategy = TokenBucket /\ refill_rate = AppRefillRate /\ capacity = AppCapacity
    /\ \E k \in Keys :
           LET s == KeyCalls(k)
           IN  /\ Len(s) = capacity + 1
               /\ \A m \in 1..Len(s) : s[m].t = s[1].t
               /\ \A m \in 1..capacity : s[m].ret = "True"
               /\ s[Len(s)].ret = "False"

\* C4: token bucket with refill_rate r > 0: after `capacity` admissions of a key at one
\* instant t0, the key's next call, if made at t0 + 1/r, is admitted, and a further
\* call at that same instant is denied.
C4_TokenOneMoreAfterOneOverRate ==
    (strategy = TokenBucket /\ refill_rate > 0) =>
        \A k \in Keys :
            LET s == KeyCalls(k)
            IN  \A p \in 1..Len(s) :
                    LET q == p + capacity
                    IN  (/\ q <= Len(s)
                         /\ \A m \in p..(q - 1) : s[m].t = s[p].t /\ s[m].ret = "True"
                         /\ (s[q].t - s[p].t) * refill_rate = TicksPerSec)
                        => /\ s[q].ret = "True"
                           /\ (q + 1 <= Len(s) /\ s[q + 1].t = s[q].t) => s[q + 1].ret = "False"

C4_Witness ==
    /\ strategy = TokenBucket /\ refill_rate > 0
    /\ \E k \in Keys :
           LET s == KeyCalls(k)
               q == 1 + capacity
           IN  /\ Len(s) = q + 1
               /\ \A m \in 1..capacity : s[m].t = s[1].t /\ s[m].ret = "True"
               /\ (s[q].t - s[1].t) * refill_rate = TicksPerSec
               /\ s[q].ret = "True"
               /\ s[q + 1].t = s[q].t /\ s[q + 1].ret = "False"

\* The per-key state before call i of hist
PreOf(i) == IF i = 1 THEN EmptyDict ELSE hist[i - 1].post

\* The entry of key k in per-key state d, as a set: empty when k has none
EntryOf(d, k) == {d[x] : x \in DOMAIN d \cap {k}}

\* The strategy run on `calls` alone, from state s: per call, what it returned and
\* the entry of the call's key after it
RECURSIVE SoloRun(_, _)
SoloRun(s, calls) ==
    IF calls = <<>> THEN <<>>
    ELSE LET c == Head(calls)
             r == StrategyAllow(s, c.key, c.t)
         IN  <<[ret |-> r.ret, entry |-> EntryOf(PerKey(r.s), c.key)]>> \o SoloRun(r.s, Tail(calls))

\* Per call of key k in hist, what it returned and the entry of k after it
Observed(k) ==
    LET s == KeyCalls(k)
    IN  [n \in 1..Len(s) |-> [ret |-> s[n].ret, entry |-> EntryOf(s[n].post, k)]]

\* C7: cross-key independence, for each strategy: in any interleaving of serial calls
\* on two keys, the decisions returned for a key are those returned when the other
\* key's calls are removed (same clock readings), the key's state is the same as in
\* that run, and a call for one key leaves the other key's state as it was.
C7_CrossKeyIndependence ==
    /\ \A k \in Keys : Observed(k) = SoloRun(Fresh, KeyCalls(k))
    /\ \A i \in DOMAIN hist :
           \A k \in Keys \ {hist[i].key} : EntryOf(hist[i].post, k) = EntryOf(PreOf(i), k)

\* a key denied and then, after calls for the other key that were admitted, denied again
C7_Witness ==
    \E i \in DOMAIN hist :
        /\ i + 2 <= Len(hist)
        /\ hist[i].ret = "False" /\ hist[i + 2].ret = "False" /\ hist[i + 2].key = hist[i].key
        /\ hist[i + 1].key # hist[i].key /\ hist[i + 1].ret = "True"

\* C8: idempotent denial, for each strategy: when allow(key) returns False at clock
\* reading t, the immediately following allow(key) at the same reading returns False
\* too; in the fixed window both denials find count = max_requests and leave it there.
C8_IdempotentDenial ==
    \A i \in DOMAIN hist :
        (/\ i + 1 <= Len(hist)
         /\ hist[i + 1].key = hist[i].key /\ hist[i + 1].t = hist[i].t
         /\ hist[i].ret = "False")
        => /\ hist[i + 1].ret = "False"
           /\ strategy = FixedWindow =>
                  LET k == hist[i].key
                  IN  /\ k \in DOMAIN PreOf(i)
                      /\ PreOf(i)[k][1] = max_requests
                      /\ hist[i].post[k][1] = max_requests
                      /\ hist[i + 1].post[k] = PreOf(i)[k]

C8_Witness ==
    /\ strategy = FixedWindow
    /\ \E i \in DOMAIN hist :
           /\ i + 1 <= Len(hist)
           /\ hist[i + 1].key = hist[i].key /\ hist[i + 1].t = hist[i].t
           /\ hist[i].ret = "False" /\ hist[i + 1].ret = "False"

\* The threads whose allow call has returned True
Admitted == {th \in Threads : pc[th] = "done" /\ frame[th].ret = "True"}

\* Every thread has run one allow call to its end, all for the same key
AllDoneOnOneKey ==
    /\ \A th \in Threads : pc[th] = "done"
    /\ \A th1, th2 \in Threads : frame[th1].key = frame[th2].key

\* C5: fixed and sliding window with max_requests = M: when N threads issue allow(key)
\* concurrently for one key within one window, exactly min(N, M) calls return True
\* and the rest False, under every interleaving.
C5_ConcurrentAdmitsExactlyM ==
    (/\ strategy \in {FixedWindow, SlidingWindow}
     /\ AllDoneOnOneKey
     /\ \A th1, th2 \in Threads :
            IF strategy = FixedWindow
            THEN AlignedWindow(frame[th1].now) = AlignedWindow(frame[th2].now)
            ELSE frame[th1].now - frame[th2].now <= window_size * TicksPerSec)
    => /\ Cardinality(Admitted) = Min(NumThreads, max_requests)
       /\ \A th \in Threads \ Admitted : frame[th].ret = "False"

\* C6: token bucket: the read of (tokens, last_refill), the refill and the write-back
\* are one atomic unit per key: concurrent allow(key) calls at one instant on a full
\* bucket of capacity C admit at most C calls and lose no decrement.
C6_TokenReadModifyWriteAtomic ==
    (/\ strategy = TokenBucket
     /\ AllDoneOnOneKey
     /\ \A th1, th2 \in Threads : frame[th1].now = frame[th2].now)
    => /\ Cardinality(Admitted) <= capacity
       /\ \A th \in Threads :
              buckets[frame[th].key][1] = (capacity - Cardinality(Admitted)) * TicksPerSec

\* The configurations section 7 of the spec calls valid
ValidConfig ==
    CASE strategy \in {FixedWindow, SlidingWindow} -> window_size > 0 /\ max_requests > 0
      [] strategy = TokenBucket -> refill_rate >= 0 /\ capacity > 0
      [] OTHER -> TRUE

\* C9: a strategy with window size <= 0, max requests <= 0, refill rate < 0 or
\* capacity <= 0 is rejected at construction: no instance with such a configuration
\* exists, and allow never runs under one.
C9_InvalidConfigRejected ==
    /\ strategy # "none" => ValidConfig
    /\ hist # <<>> => ValidConfig

\* C10: for every constructed strategy allow(key) is total: whatever the key (the
\* empty string included), the calls before it and the clock reading, it raises
\* nothing and returns a boolean.
C10_AllowTotal ==
    \A i \in DOMAIN hist : hist[i].ret \in {"True", "False"}

\* C11: token bucket under a clock that may move backward: when a call's clock reading
\* is earlier than the key's stored last_refill, elapsed is clamped to zero, so the
\* token count tested is the stored one; refill never decreases tokens and tokens
\* never become negative.
C11_TokenElapsedClamped ==
    strategy = TokenBucket =>
        \A i \in DOMAIN hist :
            LET k == hist[i].key
            IN  /\ hist[i].post[k][1] >= 0
                /\ (k \in DOMAIN PreOf(i) /\ hist[i].t < PreOf(i)[k][2])
                   => LET stored == PreOf(i)[k][1]
                      IN  /\ hist[i].ret = (IF stored >= TicksPerSec THEN "True" ELSE "False")
                          /\ hist[i].post[k][1] =
                                 (IF stored >= TicksPerSec THEN stored - TicksPerSec ELSE stored)

\* C12: fixed window under any sequence of clock readings, backward steps included:
\* the admitted calls of a key whose readings fall in one aligned window never
\* number more than max_requests.
C12_FixedPerWindowBoundAnyClock ==
    strategy = FixedWindow =>
        \A k \in Keys :
            LET s == KeyCalls(k)
            IN  \A n \in 1..Len(s) :
                    Cardinality({m \in 1..Len(s) : /\ s[m].ret = "True"
                                                   /\ AlignedWindow(s[m].t) = AlignedWindow(s[n].t)})
                        <= max_requests

\* C13: token bucket with refill_rate = 0, a valid configuration: of the serial calls
\* of a key at any non-decreasing clock readings exactly the first `capacity` are
\* admitted and every later one is denied.
C13_ZeroRateOneTimeBurst ==
    (strategy = TokenBucket /\ refill_rate = 0) =>
        \A k \in Keys :
            LET s == KeyCalls(k)
            IN  \A n \in 1..Len(s) : s[n].ret = (IF n <= capacity THEN "True" ELSE "False")

\* a key denied after its burst although the clock has advanced since
C13_Witness ==
    /\ strategy = TokenBucket /\ refill_rate = 0 /\ capacity >= 2
    /\ \E k \in Keys :
           LET s == KeyCalls(k)
           IN  /\ Len(s) = capacity + 1
               /\ s[Len(s)].ret = "False"
               /\ s[Len(s)].t >= s[capacity].t + TicksPerSec

\* C14: the fixed-window boundary artifact: when the first N = max_requests calls of a
\* key in one aligned window are followed by N calls of the key in a later window,
\* all 2N are admitted, however close in time they are; 2N admissions within less
\* than window_size are reachable (the witness).
C14_FixedBoundaryBurstAdmitted ==
    strategy = FixedWindow =>
        \A k \in Keys :
            LET s == KeyCalls(k)
            IN  \A p \in 1..Len(s) :
                    LET q == p + max_requests
                    IN  (/\ q + max_requests - 1 <= Len(s)
                         /\ \A m \in 1..(p - 1) : AlignedWindow(s[m].t) # AlignedWindow(s[p].t)
                         /\ \A m \in p..(q - 1) : AlignedWindow(s[m].t) = AlignedWindow(s[p].t)
                         /\ AlignedWindow(s[q].t) # AlignedWindow(s[p].t)
                         /\ \A m \in q..(q + max_requests - 1) :
                                AlignedWindow(s[m].t) = AlignedWindow(s[q].t))
                        => \A m \in p..(q + max_requests - 1) : s[m].ret = "True"

\* 2N admissions of one key whose readings span less than window_size
C14_Witness ==
    /\ strategy = FixedWindow /\ max_requests >= 2
    /\ \E k \in Keys :
           LET s == KeyCalls(k)
           IN  /\ Len(s) = 2 * max_requests
               /\ \A m \in 1..Len(s) : s[m].ret = "True"
               /\ s[Len(s)].t - s[1].t < window_size * TicksPerSec
               /\ AlignedWindow(s[max_requests].t) # AlignedWindow(s[max_requests + 1].t)

\* C15: insert-if-absent for a new key is concurrency-safe in the sliding window log:
\* when calls for an unseen key run concurrently (their readings within window_size
\* of each other, so that none has expired), exactly one log is installed for the key
\* and the timestamp of every admitted call is in the installed log.
C15_SlidingInsertIfAbsent ==
    (/\ strategy = SlidingWindow
     /\ AllDoneOnOneKey
     /\ \A th1, th2 \in Threads : frame[th1].now - frame[th2].now <= window_size * TicksPerSec) =>
        \A th \in Threads :
            LET k == frame[th].key
            IN  /\ Cardinality({th2 \in Threads : frame[th2].log = logs[k]}) = NumThreads
                /\ th \in Admitted =>
                       \E n \in DOMAIN deques[logs[k]] : deques[logs[k]][n] = frame[th].now

\* C16: the RateLimiter holds one strategy, fixed at construction: every
\* allow_request(key) runs that strategy's allow(key) exactly once and returns its
\* result unchanged, so the decision and the per-key state are those of the bare
\* strategy, and no call changes the strategy held.
C16_RateLimiterDelegates ==
    [][/\ strategy # "none" => strategy' = strategy
       /\ hist' # hist =>
              LET c == hist'[Len(hist')]
                  r == StrategyAllow(Cur, c.key, c.t)
              IN  /\ Len(hist') = Len(hist) + 1
                  /\ c.ret = r.ret
                  /\ store' = r.s.store /\ logs' = r.s.logs
                  /\ deques' = r.s.deques /\ buckets' = r.s.buckets]_vars

\* the limiter has returned both decisions of its strategy
C16_Witness ==
    /\ strategy # "none"
    /\ \E i, j \in DOMAIN hist : hist[i].ret = "True" /\ hist[j].ret = "False"

\* C19: fixed window: a denied allow(key) leaves the whole store unchanged, the key's
\* entry and every other key's; the store is written only on the two allow paths, and
\* there only at the key of the call.
C19_FixedDenialLeavesStore ==
    strategy = FixedWindow =>
        \A i \in DOMAIN hist :
            /\ hist[i].ret = "False" => hist[i].post = PreOf(i)
            /\ hist[i].ret = "True" =>
                   /\ DOMAIN hist[i].post = DOMAIN PreOf(i) \cup {hist[i].key}
                   /\ \A k \in DOMAIN PreOf(i) \ {hist[i].key} : hist[i].post[k] = PreOf(i)[k]

\* a denial with entries of both keys in the store
C19_Witness ==
    /\ strategy = FixedWindow
    /\ \E i \in DOMAIN hist :
           /\ hist[i].ret = "False"
           /\ DOMAIN PreOf(i) = Keys
           /\ store = PreOf(i)

\* C20: fixed window with max_requests >= 1: after any sequence of serial allow calls
\* every stored entry (count, window_start) has 1 <= count <= max_requests.
C20_FixedCountInRange ==
    strategy = FixedWindow =>
        /\ \A k \in DOMAIN store : 1 <= store[k][1] /\ store[k][1] <= max_requests
        /\ \A i \in DOMAIN hist : \A k \in DOMAIN hist[i].post :
               1 <= hist[i].post[k][1] /\ hist[i].post[k][1] <= max_requests

\* one key at count 1 and the other at count max_requests, after a denial
C20_Witness ==
    /\ strategy = FixedWindow /\ max_requests >= 2
    /\ \E k1, k2 \in DOMAIN store : store[k1][1] = 1 /\ store[k2][1] = max_requests
    /\ \E i \in DOMAIN hist : hist[i].ret = "False"

\* ------------------------------------------------------------ LRU Cache claims
RECURSIVE Forward(_, _, _)
Forward(nodes, n, fuel) ==
    IF n = tail \/ n \notin DOMAIN nodes \/ fuel = 0
    THEN <<>>
    ELSE <<n>> \o Forward(nodes, nodes[n].next, fuel - 1)
RECURSIVE Backward(_, _, _)
Backward(nodes, n, fuel) ==
    IF n = head \/ n \notin DOMAIN nodes \/ fuel = 0
    THEN <<>>
    ELSE Backward(nodes, nodes[n].prev, fuel - 1) \o <<n>>

\* the nodes linked between the sentinels, walking next from head and prev from tail
Linked == Forward(lru_nodes, lru_nodes[head].next, Cardinality(DOMAIN lru_nodes))
LinkedBack == Backward(lru_nodes, lru_nodes[tail].prev, Cardinality(DOMAIN lru_nodes))
LinkedPairs == [i \in DOMAIN Linked |-> <<lru_nodes[Linked[i]].key, lru_nodes[Linked[i]].value>>]
LinkedKeys == {lru_nodes[Linked[i]].key : i \in DOMAIN Linked}

\* C17 (LRU eviction order): on a cache of capacity >= 1, after every get and
\* put the cache holds the keys and values of the reference LRU model, in the
\* reference's order of recency, and a put that evicts evicts the key at the
\* back of the reference, the one whose last use (get hit or put) is oldest.
C17_ContentsEqualReference ==
    (lru_made /\ lru_capacity >= 1) =>
        /\ LinkedPairs = lru_ref
        /\ DOMAIN lru_cache = {lru_ref[i][1] : i \in DOMAIN lru_ref}
        /\ \A k \in DOMAIN lru_cache : lru_nodes[lru_cache[k]].key = k
C17_EvictsLeastRecent ==
    (lru_capacity >= 1 /\ lru_last' # lru_last /\ lru_last'.evicted # 0) =>
        /\ lru_ref # <<>>
        /\ lru_last'.evicted = lru_ref[Len(lru_ref)][1]
        /\ lru_last'.evicted \notin DOMAIN lru_cache'
        /\ DOMAIN lru_cache' = (DOMAIN lru_cache \cup {lru_last'.key}) \ {lru_last'.evicted}
C17_LRUEvictionOrder == [](C17_ContentsEqualReference) /\ [][C17_EvictsLeastRecent]_vars
\* the demo's put of key 3: key 1 was used after key 2, so key 2 goes
C17_Witness ==
    /\ lru_capacity = 2
    /\ lru_last.op = "put" /\ lru_last.key = 3 /\ lru_last.evicted = 2
    /\ DOMAIN lru_cache = {1, 3}
    /\ Len(Linked) = 2 /\ lru_nodes[Linked[1]].key = 3 /\ lru_nodes[Linked[2]].key = 1

\* C18 (LRU capacity invariant), as amended: for a capacity >= 0, after every
\* get and put the key map has at most capacity entries, and its keys are
\* exactly the keys of the nodes linked between head and tail, each key on one
\* node, the node the map has for it.
LRUMapMatchesList ==
    /\ Len(Linked) = Cardinality(LinkedKeys)
    /\ LinkedBack = Linked
    /\ DOMAIN lru_cache = LinkedKeys
    /\ \A i \in DOMAIN Linked : lru_cache[lru_nodes[Linked[i]].key] = Linked[i]
C18_CapacityInvariant ==
    (lru_made /\ lru_capacity >= 0) =>
        /\ Cardinality(DOMAIN lru_cache) <= lru_capacity
        /\ LRUMapMatchesList
C18_Witness ==
    /\ lru_capacity >= 2
    /\ Cardinality(DOMAIN lru_cache) = lru_capacity
    /\ lru_last.op = "put" /\ lru_last.evicted # 0
\* C18 as stated, for any capacity the constructor takes
C18_AsStated ==
    (lru_made /\ lru_last.op # "none") =>
        /\ Cardinality(DOMAIN lru_cache) <= lru_capacity
        /\ LRUMapMatchesList

\* ------------------------------------------------- rate limiter claims, continued
\* The start, in seconds, of the aligned window a clock reading falls in
BucketStart(t) == AlignedWindow(t) * window_size

\* C21 (fixed window rollover): a call for a key whose stored window_start is not
\* the window start of the call's reading returns True, whatever the stored
\* count, and leaves the key's entry at exactly <<1, window start of the call>>.
C21_FixedRollover ==
    strategy = FixedWindow =>
        \A i \in DOMAIN hist :
            LET k == hist[i].key
            IN  (k \in DOMAIN PreOf(i) /\ PreOf(i)[k][2] # BucketStart(hist[i].t)) =>
                    /\ hist[i].ret = "True"
                    /\ hist[i].post[k] = <<1, BucketStart(hist[i].t)>>

\* a rollover from a full counter: the call before it for the key was denied
C21_Witness ==
    /\ strategy = FixedWindow
    /\ \E i \in DOMAIN hist :
           LET k == hist[i].key
           IN  /\ i > 1 /\ hist[i - 1].key = k /\ hist[i - 1].ret = "False"
               /\ PreOf(i)[k] = <<max_requests, 0>>
               /\ hist[i].ret = "True"
               /\ hist[i].post[k] = <<1, window_size>>

C23_SlidingLogBounded ==
    strategy = SlidingWindow =>
        /\ \A k \in DOMAIN logs : Len(deques[logs[k]]) <= max_requests
        /\ \A i \in DOMAIN hist : \A k \in DOMAIN hist[i].post :
               Len(hist[i].post[k]) <= max_requests

\* a full log on which a call was denied, and a log that is not full
C23_Witness ==
    /\ strategy = SlidingWindow /\ max_requests >= 2
    /\ \E k1, k2 \in DOMAIN logs :
           /\ Len(deques[logs[k1]]) = max_requests
           /\ Len(deques[logs[k2]]) < max_requests
    /\ \E i \in DOMAIN hist :
           hist[i].ret = "False" /\ Len(hist[i].post[hist[i].key]) = max_requests

\* C24 (sliding window purging): after every allow(key) call, admitted or denied,
\* made at clock reading now, every timestamp left in the key's log is at least
\* now - window_size.
C24_SlidingPurgedOnEveryCall ==
    strategy = SlidingWindow =>
        \A i \in DOMAIN hist :
            LET log == hist[i].post[hist[i].key]
            IN  \A n \in DOMAIN log : log[n] >= hist[i].t - window_size * TicksPerSec

\* C25 (sliding window log order): in every reachable state, whatever the clock
\* readings of the calls, each key's log is in non-decreasing order, oldest first.
C25_SlidingLogOrdered ==
    strategy = SlidingWindow =>
        \A k \in DOMAIN logs :
            LET log == deques[logs[k]]
            IN  \A n \in 1..(Len(log) - 1) : log[n] <= log[n + 1]

\* C26 (sliding window expiry boundary): a call at reading now removes the
\* timestamps strictly older than now - window_size and no other: one equal to
\* now - window_size stays and counts. On a log of max_requests entries with
\* oldest entry t0, a call at t0 + window_size is denied and a call later than
\* t0 + window_size is admitted.
C26_SlidingExpiryBoundary ==
    strategy = SlidingWindow =>
        \A i \in DOMAIN hist :
            LET k == hist[i].key
                t == hist[i].t
                w == window_size * TicksPerSec
                before == IF k \in DOMAIN PreOf(i) THEN PreOf(i)[k] ELSE <<>>
                kept == SelectSeq(before, LAMBDA x : x >= t - w)
            IN  /\ hist[i].post[k] = IF hist[i].ret = "True" THEN Append(kept, t) ELSE kept
                /\ (Len(before) = max_requests /\ t = before[1] + w) => hist[i].ret = "False"
                /\ (Len(before) = max_requests /\ t > before[1] + w) => hist[i].ret = "True"

\* a full log with oldest entry t0, denied at t0 + window_size with t0 retained, admitted later
C26_Witness ==
    /\ strategy = SlidingWindow
    /\ \E i \in DOMAIN hist :
           LET k == hist[i].key
               w == window_size * TicksPerSec
           IN  /\ i > 2 /\ hist[i - 1].key = k
               /\ k \in DOMAIN PreOf(i - 1)
               /\ Len(PreOf(i - 1)[k]) = max_requests
               /\ hist[i - 1].t = PreOf(i - 1)[k][1] + w
               /\ hist[i - 1].ret = "False"
               /\ hist[i - 1].post[k] = PreOf(i - 1)[k]
               /\ hist[i].t > hist[i - 1].t
               /\ hist[i].ret = "True"

\* C27 (token bucket range): after any sequence of serial allow calls at
\* non-decreasing clock readings, every key's stored token count is between 0 and
\* capacity.
C27_TokensInRange ==
    strategy = TokenBucket =>
        /\ \A k \in DOMAIN buckets :
               0 <= buckets[k][1] /\ buckets[k][1] <= capacity * TicksPerSec
        /\ \A i \in DOMAIN hist : \A k \in DOMAIN hist[i].post :
               0 <= hist[i].post[k][1] /\ hist[i].post[k][1] <= capacity * TicksPerSec

\* a denial that stored a fraction of a token, then a refill that min() cut to capacity
C27_Witness ==
    /\ strategy = TokenBucket
    /\ \E i \in DOMAIN hist :
           LET k == hist[i].key
           IN  /\ i > 2 /\ hist[i - 1].key = k
               /\ hist[i - 1].ret = "False"
               /\ 0 < hist[i - 1].post[k][1] /\ hist[i - 1].post[k][1] < TicksPerSec
               /\ hist[i - 1].post[k][1] + (hist[i].t - hist[i - 1].t) * refill_rate
                      > capacity * TicksPerSec
               /\ hist[i].ret = "True"
               /\ hist[i].post[k][1] = (capacity - 1) * TicksPerSec

\* C28 (token bucket state update): a call for a key at reading now stores
\* last_refill_time = now; with refilled = min(capacity, tokens + elapsed *
\* refill_rate) on the key's entry (a full bucket read at now for a new key), it
\* returns True and stores refilled - 1 when refilled >= 1, and returns False and
\* stores refilled otherwise; the bucket of no other key changes.
C28_TokenStateUpdate ==
    strategy = TokenBucket =>
        \A i \in DOMAIN hist :
            LET k == hist[i].key
                t == hist[i].t
                e == IF k \in DOMAIN PreOf(i) THEN PreOf(i)[k] ELSE <<capacity * TicksPerSec, t>>
                grown == e[1] + (t - e[2]) * refill_rate
                refilled == IF grown < capacity * TicksPerSec THEN grown ELSE capacity * TicksPerSec
            IN  /\ hist[i].ret = IF refilled >= TicksPerSec THEN "True" ELSE "False"
                /\ hist[i].post[k] = IF refilled >= TicksPerSec
                                     THEN <<refilled - TicksPerSec, t>>
                                     ELSE <<refilled, t>>
                /\ DOMAIN hist[i].post = DOMAIN PreOf(i) \cup {k}
                /\ \A o \in DOMAIN PreOf(i) \ {k} : hist[i].post[o] = PreOf(i)[o]

\* an admitted and then a denied call for a key, at a later reading each, beside the bucket of another key
C28_Witness ==
    /\ strategy = TokenBucket /\ refill_rate > 0
    /\ \E i \in DOMAIN hist :
           LET k == hist[i].key
           IN  /\ i > 2 /\ hist[i - 1].key = k
               /\ DOMAIN PreOf(i - 1) = Keys
               /\ hist[i - 1].t > PreOf(i - 1)[k][2] /\ hist[i - 1].ret = "True"
               /\ hist[i].t > hist[i - 1].t /\ hist[i].ret = "False"
               /\ hist[i].post[k][1] > hist[i - 1].post[k][1]

\* C29 (token bucket refill exact under polling): from a stored entry (x, t0) of a
\* key, after denied calls for it at t1 <= ... <= tn the stored token count is
\* min(capacity, x + (tn - t0) * refill_rate), the value a single call at tn
\* computes from (x, t0), and a call at tn after denied calls at t1..t(n-1)
\* returns what the single call at tn returns: polling neither delays nor
\* advances the next admission.
C29_TokenRefillExactUnderPolling ==
    strategy = TokenBucket =>
        \A k \in Keys :
            LET s == KeyCalls(k)
            IN  \A i \in 2..Len(s) : \A j \in i..Len(s) :
                    (\A m \in i..(j - 1) : s[m].ret = "False") =>
                        LET x == s[i - 1].post[k][1]
                            t0 == s[i - 1].post[k][2]
                            single == RefillFloat(x, t0, s[j].t)
                        IN  /\ s[j].ret = (IF single >= Unit THEN "True" ELSE "False")
                            /\ s[j].ret = "False" => s[j].post[k][1] = single

\* C30 (per-key state lifecycle): for each strategy, only keys allow was called
\* with have an entry, a call that is admitted leaves an entry for its key (so the
\* admitted first call of a key creates it), and no call removes an entry: the set
\* of stored keys only grows.
StoredKeys == DOMAIN PerKey(Cur)
C30_OnlyCalledKeysStored ==
    /\ StoredKeys \subseteq {hist[i].key : i \in DOMAIN hist}
    /\ \A i \in DOMAIN hist :
           /\ hist[i].ret = "True" => hist[i].key \in DOMAIN hist[i].post
           /\ DOMAIN PreOf(i) \subseteq DOMAIN hist[i].post
C30_StoredKeysOnlyGrow == StoredKeys \subseteq StoredKeys'
C30_KeyLifecycle == [](C30_OnlyCalledKeysStored) /\ [][C30_StoredKeysOnlyGrow]_vars

\* a key called once at the start still has its entry after later calls for the other key
C30_Witness ==
    /\ strategy # "none" /\ Len(hist) >= 3
    /\ StoredKeys = Keys
    /\ \A i \in 2..Len(hist) : hist[i].key # hist[1].key
    /\ hist[1].ret = "True"
    /\ hist[Len(hist)].t = MaxTime /\ hist[1].t = 0
    /\ \E i \in DOMAIN hist : hist[i].ret = "False"

\* C31 (token bucket long-run rate bound): over serial calls at non-decreasing
\* clock readings, the calls for one key admitted with readings in [t1, t2] number
\* at most capacity + (t2 - t1) * refill_rate. Readings in seconds, token counts
\* and refill_rate in 1/Unit.
C31_TokenRateBound ==
    strategy = TokenBucket =>
        \A k \in Keys :
            LET s == KeyCalls(k)
            IN  \A i \in 1..Len(s) : \A j \in i..Len(s) :
                    Cardinality({m \in i..j : s[m].ret = "True"}) * Unit
                        <= capacity * Unit + (s[j].t - s[i].t) * refill_rate

\* Call n of the calls s of one key comes late enough after the key's earlier
\* calls: (fixed window) in an aligned window later than that of call n-1,
\* (sliding window) more than window_size after the key's last admitted call,
\* (token bucket, refill_rate > 0) at least 1/refill_rate after call n-1
Due(s, n) ==
    /\ n >= 2
    /\ CASE strategy = FixedWindow ->
                AlignedWindow(s[n].t) > AlignedWindow(s[n - 1].t)
         [] strategy = SlidingWindow ->
                /\ \E m \in 1..(n - 1) : s[m].ret = "True"
                /\ \A m \in 1..(n - 1) :
                       s[m].ret = "True" => s[n].t > s[m].t + window_size * TicksPerSec
         [] strategy = TokenBucket ->
                /\ refill_rate > 0
                /\ (s[n].t - s[n - 1].t) * refill_rate >= TicksPerSec
         [] OTHER -> FALSE

\* C32 (no permanent lockout): under a valid configuration and a non-decreasing
\* clock, a call for a key that comes late enough after the key's earlier calls
\* (Due) is admitted, so a denied key is admitted again once time has advanced.
C32_NoPermanentLockout ==
    \A k \in Keys :
        LET s == KeyCalls(k)
        IN  \A n \in 1..Len(s) : Due(s, n) => s[n].ret = "True"

\* a key denied, and admitted at its next call, which came late enough
C32_Witness ==
    \E k \in Keys :
        LET s == KeyCalls(k)
        IN  \E n \in 1..Len(s) : Due(s, n) /\ s[n - 1].ret = "False" /\ s[n].ret = "True"

\* ------------------------------------------------- LRU Cache claims, continued
\* C33 (LRU get and put values): get(key) returns the value of the most recent
\* put(key, v) when the key has not been evicted since that put, and -1
\* otherwise; a get that misses leaves the key map and the recency order as they
\* were; a put on a key already cached replaces its value, keeps the number of
\* entries and evicts nothing.
C33_GetReturnsLastPut ==
    lru_last.op = "get" =>
        lru_last.ret = IF lru_last.key \in DOMAIN lru_put THEN lru_put[lru_last.key] ELSE Miss
C33_MissAndOverwrite ==
    /\ (lru_made /\ lru_last'.op = "get" /\ lru_last'.key \notin DOMAIN lru_put) =>
           /\ lru_cache' = lru_cache
           /\ Linked' = Linked
    /\ (lru_made /\ lru_last'.op = "put" /\ lru_last'.key \in DOMAIN lru_cache) =>
           /\ DOMAIN lru_cache' = DOMAIN lru_cache
           /\ lru_last'.evicted = 0
           /\ lru_nodes'[lru_cache'[lru_last'.key]].value = lru_last'.value
C33_GetPutValues == [](C33_GetReturnsLastPut) /\ [][C33_MissAndOverwrite]_vars

\* a hit on a key of a full cache whose least recently used entry holds another value
C33_Witness ==
    /\ lru_capacity >= 2 /\ Cardinality(DOMAIN lru_cache) = lru_capacity
    /\ lru_last.op = "get" /\ lru_last.ret = MaxLRUValue
    /\ lru_nodes[Linked[Len(Linked)]].value # MaxLRUValue

\* ====================================================================== Elevator claims
\* the worker threads that have been started and have not ended
ActiveWorkers == {w \in Workers : el_worker[w].pc \notin {"unstarted", "done", "IndexError"}}

\* every call of request has returned and no worker thread is left to run
Quiescent ==
    /\ \A c \in Callers : el_caller[c].pc = "done"
    /\ ActiveWorkers = {}

\* C34: every request appended by Elevator.request is popped and served by a
\* worker: once every call has returned and no worker thread is running, no
\* request is left in request_queue and every request has been served.
C34_NoStrandedRequest ==
    Quiescent => el_queue = <<>> /\ el_served = Callers

\* C35: at most one worker thread is active for the elevator at any time, and
\* no worker pops from an empty request_queue.
C35_SingleWorker ==
    /\ Cardinality(ActiveWorkers) <= 1
    /\ \A w \in Workers : el_worker[w].pc # "IndexError"

\* ==================================================================== Mini Venmo claims
\* the balances after amount has gone from sender to receiver
Transferred(before, sender, receiver, amount) ==
    LET out == [before EXCEPT ![sender] = @ - amount]
    IN  [out EXCEPT ![receiver] = @ + amount]

\* C36: MiniVenmo.pay is all-or-nothing: a pay that raises leaves every
\* balance as it was; a pay that returns has moved amount from the sender to
\* the receiver and left no balance negative.
C36_PayAllOrNothing ==
    vm_last.op = "pay" =>
        IF vm_last.raised
        THEN Balances = vm_last.before
        ELSE /\ Balances = Transferred(vm_last.before, vm_last.sender,
                                       vm_last.receiver, vm_last.amount)
             /\ \A u \in DOMAIN Balances : Balances[u] >= 0

\* =================================================================== Text editor claims
\* C37: an undo that finds a command on the undo stack restores the text
\* buffer and the cursor to the state before that command was last executed,
\* and a redo made immediately after that undo restores the state that held
\* before the undo.
C37_UndoRedoRoundTrip ==
    /\ (ed_last.op = "undo" /\ ed_last.command) =>
           /\ ~ed_last.raised
           /\ EditorState(text_buffer, cursor) = ed_last.expect
    /\ (ed_last.op = "redo" /\ ed_last.after_undo) =>
           EditorState(text_buffer, cursor) = ed_last.expect

====
